---- MODULE Spec2Model ----
(***************************************************************************)
(* Model of globstar.js: main(argv, exit) expands the glob tokens of a     *)
(* command line and runs the command once with every match (bulk mode) or  *)
(* once per match (each mode).                                             *)
(*                                                                         *)
(* Strings are modelled as sequences of one-character strings so that the  *)
(* glob-syntax tests and the matcher can look at their characters.         *)
(* JavaScript values that may be a number, null or undefined (a child's    *)
(* close status, err.status) are sequences: <<>> for null/undefined and    *)
(* <<n>> for the number n.                                                 *)
(***************************************************************************)
EXTENDS Integers, Sequences, FiniteSets, TLC

\* ---------------------------------------------------------------- bounds
MaxArgs == 2        \* most ARG tokens after COMMAND
MaxStatus == 2      \* largest exit status a child reports
MaxVerbose == 3     \* most -v flags on the command line

\* ------------------------------------------------------- the input space
\* "a" is a plain token; "*" is a glob for both syntax tests; "a?" and "[a"
\* are globs for the relaxed test only.
Tokens == { <<"a">>, <<"*">>, <<"a", "?">>, <<"[", "a">> }

\* the paths that may exist in the working directory, in sorted order
PathOrder == << <<"a">>, <<"a", "b">>, <<"b">> >>

Paths == { PathOrder[i] : i \in 1..Len(PathOrder) }

ArgLists == UNION { [1..n -> Tokens] : n \in 0..MaxArgs }

Cmd == <<"c", "m", "d">>

\* what yargs hands back: err is the failure of .demand(1) (no COMMAND, so no
\* ARG either); each is -e; nonull is a user-supplied --nonull / --no-nonull;
\* verbose is the count of -v
Inputs ==
  { i \in [err : BOOLEAN, each : BOOLEAN, nonull : BOOLEAN, args : ArgLists,
           verbose : 0..MaxVerbose] :
      i.err => i.args = <<>> }

Platforms == {"posix", "win32"}

\* ------------------------------------------------------- JavaScript values
Null == <<>>

Num(n) == <<n>>

\* ToBoolean of a number-or-null value: null, undefined and 0 are falsy
Truthy(v) == v # Null /\ v # Num(0)

\* v || d
OrElse(v, d) == IF Truthy(v) THEN v[1] ELSE d

NoError == [name |-> "none", message |-> "", status |-> Null]

YargsError == [name |-> "YargsError", message |-> "COMMAND required", status |-> Null]

MultiGlobError ==
  [name |-> "Error", message |-> "each cannot accept multiple globs", status |-> Null]

\* glob.sync(undefined): the matching engine rejects a missing pattern
PatternError == [name |-> "Error", message |-> "must provide pattern", status |-> Null]

\* the errno exception of a spawn that failed (ENOENT, EACCES): no status
SpawnFailure == [name |-> "Error", message |-> "spawn ENOENT", status |-> Null]

SpawnError(status) ==
  [name |-> "SpawnError", message |-> "Exit status", status |-> status]

\* the status of the 'close' that follows a failed spawn: the negative errno
ENOENT == -2

Undefined == <<"undefined">>

VARIABLES
  input,       \* what the command line parses to
  files,       \* the paths that exist
  platform,    \* process.platform
  level,       \* npmlog.level
  log,         \* the entries npmlog emitted, in order
  twin,        \* a second run of main on the same input, files, platform
               \* and child events, with its own count of -v
  pc,          \* where main is: start, await (each), bulkWait, done
  values,      \* each mode: the argument lists globArgsEach returned
  children,    \* the spawnCommand calls so far, in order
  exits,       \* the codes the exit callback was invoked with, in order
  handled,     \* the errors errorHandler was called with, in order
  globCalls,   \* the patterns handed to the matching engine, in order
  buildCalls   \* how many times an argument builder was called

vars ==
  <<input, files, platform, level, log, twin,
    pc, values, children, exits, handled, globCalls, buildCalls>>

\* -------------------------------------------------------------- parseArgv
Max(a, b) == IF a >= b THEN a ELSE b

verbosityUnclamped(v) == v

\* args.verbose = 2 - Math.max(2 - args.verbose, 0)
verbosity(v) == 2 - Max(2 - v, 0)

LevelNames == <<"info", "verbose", "silly">>

\* ['info', 'verbose', 'silly'][index]: undefined outside the array
levelAt(index) ==
  IF index \in 0..(Len(LevelNames) - 1) THEN LevelNames[index + 1] ELSE "undefined"

parseArgvNoError(i) ==
  [isError |-> FALSE,
   logLevel |-> levelAt(verbosity(i.verbose)),
   each |-> i.each,
   cmd |-> Cmd,
   args |-> i.args,
   globOpts |-> [nonull |-> i.nonull]]

\* The result of parseArgv: an Error (isError) when yargs failed. The
\* verbose flag is deleted from globOpts with the other non-glob flags.
parseArgv(i) ==
  [isError |-> i.err,
   logLevel |-> levelAt(verbosity(i.verbose)),
   each |-> i.each,
   cmd |-> Cmd,
   args |-> i.args,
   globOpts |-> [nonull |-> i.nonull]]

\* ------------------------------------------------------------------ npmlog
\* npmlog's levels in rising order; an undefined level suppresses nothing
LevelRank(l) ==
  CASE l = "silly" -> 0
    [] l = "verbose" -> 1
    [] l = "info" -> 2
    [] l = "error" -> 3
    [] OTHER -> 0 - 1

\* npmlog.log(lvl, ...) in run r: emitted unless lvl is below npmlog.level.
\* by names the function that logs, full says that the whole error object
\* and not only its message is logged.
Log(r, lvl, by, what, full) ==
  IF LevelRank(lvl) >= LevelRank(r.level)
    THEN [r EXCEPT !.log = Append(@, [level |-> lvl, by |-> by, what |-> what, full |-> full])]
    ELSE r

\* ---------------------------------------------------------------- is-glob
GlobChars == {"*", "?", "{", "}", "(", ")", "[", "]"}

\* isGlob(str, { strict: false }): any glob character, or a leading "!"
isGlobRelaxed(str) ==
  /\ str # <<>>
  /\ \/ str[1] = "!"
     \/ \E i \in 1..Len(str) : str[i] \in GlobChars

\* isGlob(str): "*", a "?" after one of ] . + ), a closed [...] or {...},
\* or a leading "!"
isGlobStrict(str) ==
  /\ str # <<>>
  /\ \/ str[1] = "!"
     \/ \E i \in 1..Len(str) : str[i] = "*"
     \/ \E i \in 2..Len(str) : str[i] = "?" /\ str[i - 1] \in {"]", ".", "+", ")"}
     \/ \E i \in 1..Len(str) : \E j \in (i + 2)..Len(str) :
          /\ str[i] = "[" /\ str[j] = "]"
          /\ \A k \in (i + 1)..(j - 1) : str[k] # "]"
     \/ \E i \in 1..Len(str) : \E j \in (i + 2)..Len(str) :
          /\ str[i] = "{" /\ str[j] = "}"
          /\ \A k \in (i + 1)..(j - 1) : str[k] # "}"

\* ------------------------------------------------------------------- glob
RECURSIVE Match(_, _)
\* does the pattern match the whole path: "*" any run, "?" one character
Match(p, s) ==
  IF p = <<>> THEN s = <<>>
  ELSE IF Head(p) = "*"
    THEN \E k \in 0..Len(s) : Match(Tail(p), SubSeq(s, k + 1, Len(s)))
    ELSE /\ s # <<>>
         /\ (Head(p) = "?" \/ Head(p) = Head(s))
         /\ Match(Tail(p), Tail(s))

Matching(pattern, path) == path \in files /\ Match(pattern, path)

\* glob.sync(pattern, opts): the existing paths that match, sorted; with
\* nonull a pattern without a match yields itself
glob(pattern, opts) ==
  LET found == SelectSeq(PathOrder, LAMBDA p : Matching(pattern, p))
  IN IF found = <<>> /\ opts.nonull THEN <<pattern>> ELSE found

\* ---------------------------------------------------------------- globArgs
\* globOpts.nonull = true
forceNonull(globOpts) == [globOpts EXCEPT !.nonull = TRUE]

flattenSwapped(previous, current) == current \o previous

\* the reducer of globArgs: previous.concat(current)
flatten(previous, current) == previous \o current

RECURSIVE reduce(_, _)
\* array.reduce(flatten, initial), left to right
reduce(previous, array) ==
  IF array = <<>> THEN previous
  ELSE reduce(flatten(previous, Head(array)), Tail(array))

\* args.map(globArg).reduce(flatten, [])
globArgs(args, globOpts) ==
  LET opts == forceNonull(globOpts)
      mapped == [i \in 1..Len(args) |-> glob(args[i], opts)]
  IN reduce(<<>>, mapped)

\* ------------------------------------------------------------ globArgsEach
RECURSIVE globCountFrom(_, _)
\* args.reduce((prev, curr) => prev + isGlob(curr, { strict: false }), 0)
globCountFrom(prev, args) ==
  IF args = <<>> THEN prev
  ELSE globCountFrom(prev + (IF isGlobRelaxed(Head(args)) THEN 1 ELSE 0), Tail(args))

globCount(args) == globCountFrom(0, args)

NotFound == 0

\* args.findIndex((arg) => isGlob(arg)): the first position (from 1) that
\* passes the strict test, NotFound (JavaScript's -1) when none does
globIndex(args) ==
  LET hits == { i \in 1..Len(args) : isGlobStrict(args[i]) }
  IN IF hits = {} THEN NotFound
     ELSE CHOOSE i \in hits : \A j \in hits : i <= j

tooManyGlobsOff(count) == count > 2

\* if (globCount > 1)
tooManyGlobs(count) == count > 1

noGlobsOff(count) == count < 0

\* if (globCount <= 0)
noGlobs(count) == count <= 0

\* The outcome of globArgsEach: threw and err when it throws, otherwise the
\* argument lists in values; calls are the patterns it gave the matching
\* engine. args[-1] is undefined, and the engine throws on it.
globArgsEach(args, globOpts) ==
  LET opts == forceNonull(globOpts)
      count == globCount(args)
      index == globIndex(args)
      globValues == glob(args[index], opts)
  IN IF tooManyGlobs(count)
       THEN [threw |-> TRUE, err |-> MultiGlobError, values |-> <<>>, calls |-> <<>>]
     ELSE IF noGlobs(count)
       THEN [threw |-> FALSE, err |-> NoError, values |-> <<args>>, calls |-> <<>>]
     ELSE IF index = NotFound
       THEN [threw |-> TRUE, err |-> PatternError, values |-> <<>>,
             calls |-> <<Undefined>>]
     ELSE [threw |-> FALSE, err |-> NoError,
           values |-> [k \in 1..Len(globValues) |-> [args EXCEPT ![index] = globValues[k]]],
           calls |-> <<args[index]>>]

\* ------------------------------------------------------------ spawnCommand
onetimeOff(called) == TRUE

\* cb = onetime(cb): the wrapped callback passes a call through only when
\* it has not been called before
onetime(called) == ~called

Quote(cmd) == <<"\"">> \o cmd \o <<"\"">>

\* The child record a spawnCommand(cmd, args, cb) call creates. promise is
\* "none" when cb is errorHandler (bulk mode) and the state of the promise
\* that cb settles in each mode.
spawnCommand(cmd, args, promise) ==
  [args |-> args,
   spawnCmd |-> IF platform = "win32" THEN <<"c", "m", "d">> ELSE cmd,
   spawnArgs |-> IF platform = "win32" THEN << <<"/", "c">>, Quote(cmd) >> \o args
                 ELSE args,
   state |-> "running",
   spawnFailed |-> FALSE,
   status |-> Null,
   called |-> FALSE,
   cbCount |-> 0,
   cbErr |-> NoError,
   closeErr |-> NoError,
   promise |-> promise,
   reason |-> NoError]

\* --------------------------------------------------------------- the runs
\* The state of one run of main as a record; every step of main is a
\* function on such records, applied to the run held in the variables and
\* to the twin run.
St ==
  [verbose |-> input.verbose, level |-> level, log |-> log, pc |-> pc,
   values |-> values, children |-> children, exits |-> exits, handled |-> handled,
   globCalls |-> globCalls, buildCalls |-> buildCalls]

InitRun(v) ==
  [verbose |-> v, level |-> "info", log |-> <<>>, pc |-> "start",
   values |-> <<>>, children |-> <<>>, exits |-> <<>>, handled |-> <<>>,
   globCalls |-> <<>>, buildCalls |-> 0]

Becomes(n) ==
  /\ level' = n.level
  /\ log' = n.log
  /\ pc' = n.pc
  /\ values' = n.values
  /\ children' = n.children
  /\ exits' = n.exits
  /\ handled' = n.handled
  /\ globCalls' = n.globCalls
  /\ buildCalls' = n.buildCalls

\* One step of the program: the run in the variables becomes n, which it
\* was not before (every step changes the run), and the twin becomes t.
Take(n, t) ==
  /\ n # St
  /\ Becomes(n)
  /\ twin' = t
  /\ UNCHANGED <<input, files, platform>>

\* parseArgv(argv) in run r; it sets npmlog.level
Argv(r) == parseArgv([input EXCEPT !.verbose = r.verbose])

Parsed(r) == [r EXCEPT !.level = Argv(r).logLevel]

\* ------------------------------------------------------------ errorHandler
exitCodeAlwaysOne(err) == IF err # NoError THEN 1 ELSE 0

\* the code errorHandler(err) passes to exit: err.status || 1, or 0
exitCode(err) == IF err # NoError THEN OrElse(err.status, 1) ELSE 0

isDiagnosedAlways(err) == TRUE

\* if (err.name !== 'SpawnError')
isDiagnosed(err) == err.name # "SpawnError"

\* the three npmlog.log calls of errorHandler
Diagnose(r, err) ==
  LET e == Log(r, "error", "errorHandler", err.message, r.level = "silly")
      h == Log(e, "info", "errorHandler", "Try --help for more information", FALSE)
  IN Log(h, "verbose", "errorHandler", "globstar@version", FALSE)

errorHandlerExitWhenSilly(r, err) ==
  IF err # NoError
    THEN IF r.level = "silly"
           THEN [Diagnose(r, err) EXCEPT !.exits = Append(@, exitCode(err)),
                                         !.handled = Append(@, err)]
           ELSE [Diagnose(r, err) EXCEPT !.handled = Append(@, err)]
    ELSE [r EXCEPT !.exits = Append(@, 0), !.handled = Append(@, err)]

\* errorHandler(err) in run r: the diagnostics, then one call of exit
errorHandler(r, err) ==
  LET logged == IF err # NoError /\ isDiagnosed(err) THEN Diagnose(r, err) ELSE r
  IN [logged EXCEPT !.exits = Append(@, exitCode(err)), !.handled = Append(@, err)]

\* spawnCommand(cmd, args, cb) in run r: the 'Running' entry, then the child
Spawn(r, cmd, args, promise) ==
  [Log(r, "verbose", "spawnCommand", "Running", FALSE)
     EXCEPT !.children = Append(@, spawnCommand(cmd, args, promise))]

\* -------------------------------------------------------------------- Init
Init ==
  /\ input \in Inputs
  /\ files \in SUBSET Paths
  /\ platform \in Platforms
  /\ level = "info"
  /\ log = <<>>
  /\ pc = "start"
  /\ values = <<>>
  /\ children = <<>>
  /\ exits = <<>>
  /\ handled = <<>>
  /\ globCalls = <<>>
  /\ buildCalls = 0
  /\ twin = InitRun(input.verbose)

\* -------------------------------------------------------------------- main
\* main when parseArgv returns an Error: errorHandler(argv); return
MainConfigErrorOn(r) ==
  IF r.pc = "start" /\ Argv(r).isError
    THEN [errorHandler(Parsed(r), YargsError) EXCEPT !.pc = "done"]
    ELSE r

MainConfigError ==
  /\ pc = "start"
  /\ Take(MainConfigErrorOn(St), MainConfigErrorOn(twin))

MainBulkPerTokenOn(r) ==
  LET argv == Argv(r)
      opts == forceNonull(argv.globOpts)
      built == [Log(Parsed(r), "silly", "globArgs", "opts", FALSE)
                  EXCEPT !.buildCalls = @ + 1, !.globCalls = @ \o argv.args]
  IN IF r.pc = "start" /\ ~argv.isError /\ ~argv.each
       THEN [built EXCEPT
               !.children = @ \o [i \in 1..Len(argv.args) |->
                                    spawnCommand(argv.cmd, glob(argv.args[i], opts), "none")],
               !.pc = "bulkWait"]
       ELSE r

\* main in bulk mode: spawnCommand(argv.cmd, globArgs(...), errorHandler)
MainBulkOn(r) ==
  LET argv == Argv(r)
      built == [Log(Parsed(r), "silly", "globArgs", "opts", FALSE)
                  EXCEPT !.buildCalls = @ + 1, !.globCalls = @ \o argv.args]
  IN IF r.pc = "start" /\ ~argv.isError /\ ~argv.each
       THEN [Spawn(built, argv.cmd, globArgs(argv.args, argv.globOpts), "none")
               EXCEPT !.pc = "bulkWait"]
       ELSE r

MainBulk ==
  /\ pc = "start"
  /\ Take(MainBulkOn(St), MainBulkOn(twin))

\* main in each mode: mainEach up to its first await, or to its end when
\* globArgsEach throws (the catch runs in the same turn) or returns nothing
MainEachOn(r) ==
  LET argv == Argv(r)
      res == globArgsEach(argv.args, argv.globOpts)
      built == [Log(Parsed(r), "silly", "globArgsEach", "opts", FALSE)
                  EXCEPT !.buildCalls = @ + 1, !.globCalls = @ \o res.calls,
                         !.values = res.values]
  IN IF r.pc = "start" /\ ~argv.isError /\ argv.each
       THEN IF res.threw
              THEN [errorHandler(built, res.err) EXCEPT !.pc = "done"]
            ELSE IF res.values = <<>>
              THEN [built EXCEPT !.pc = "done"]
            ELSE [Spawn(built, argv.cmd, res.values[1], "pending") EXCEPT !.pc = "await"]
       ELSE r

MainEach ==
  /\ pc = "start"
  /\ Take(MainEachOn(St), MainEachOn(twin))

\* ------------------------------------------------------------ child events
\* The handler of child k calls cb(err) (err = NoError for cb()) in run r
\* while the child's record becomes moved. In bulk mode cb is errorHandler;
\* in each mode cb rejects or resolves the promise, which settles once.
Deliver(r, k, moved, err) ==
  LET c == r.children[k]
  IN IF onetime(c.called)
       THEN LET fired == [moved EXCEPT !.called = TRUE, !.cbCount = c.cbCount + 1,
                                       !.cbErr = err]
            IN IF c.promise = "none"
                 THEN [errorHandler([r EXCEPT !.children[k] = fired], err)
                         EXCEPT !.pc = "done"]
               ELSE [r EXCEPT !.children[k] =
                       IF c.promise = "pending"
                         THEN [fired EXCEPT
                                 !.promise = IF err # NoError THEN "rejected" ELSE "resolved",
                                 !.reason = err]
                         ELSE fired]
     ELSE [r EXCEPT !.children[k] = moved]

\* child.on('error', cb): the spawn failed
ChildErrorOn(r, k) ==
  IF k \in 1..Len(r.children) /\ r.children[k].state = "running"
    THEN Deliver(r, k, [r.children[k] EXCEPT !.state = "errored", !.spawnFailed = TRUE],
                 SpawnFailure)
    ELSE r

ChildError(k) ==
  /\ children[k].state = "running"
  /\ Take(ChildErrorOn(St, k), ChildErrorOn(twin, k))

\* the statuses a 'close' can report to a child in the given state: a child
\* that ran closes with its exit status, or with null when a signal ended
\* it; after a failed spawn the status is the negative errno
CloseStatuses(state) ==
  IF state = "running"
    THEN {Null} \cup { Num(n) : n \in 0..MaxStatus }
    ELSE {Num(ENOENT)}

onCloseNoStatus(status) == IF Truthy(status) THEN SpawnError(Null) ELSE NoError

onCloseNullFails(status) == IF status # Num(0) THEN SpawnError(status) ELSE NoError

\* what onClose(status) calls cb with: a SpawnError carrying a truthy
\* status, nothing otherwise
onClose(status) == IF Truthy(status) THEN SpawnError(status) ELSE NoError

\* child.on('close', onClose)
ChildCloseOn(r, k, s) ==
  IF /\ k \in 1..Len(r.children)
     /\ r.children[k].state \in {"running", "errored"}
     /\ s \in CloseStatuses(r.children[k].state)
    THEN Deliver(r, k,
                 [r.children[k] EXCEPT !.state = "closed", !.status = s,
                                       !.closeErr = onClose(s)],
                 onClose(s))
    ELSE r

ChildClose(k) ==
  /\ children[k].state \in {"running", "errored"}
  /\ \E s \in CloseStatuses(children[k].state) :
       Take(ChildCloseOn(St, k, s), ChildCloseOn(twin, k, s))

\* ------------------------------------------------------- mainEach resumed
\* the child whose promise mainEach awaits
Awaited(r) == r.children[Len(r.children)]

EachNextNoAwaitOn(r) ==
  IF /\ r.pc = "await"
     /\ Awaited(r).promise \in {"pending", "resolved"}
     /\ Len(r.children) < Len(r.values)
    THEN Spawn(r, Argv(r).cmd, r.values[Len(r.children) + 1], "pending")
    ELSE r

EachNextRepeatOn(r) ==
  IF r.pc = "await" /\ Awaited(r).promise = "resolved"
    THEN IF Len(r.children) < Len(r.values)
           THEN Spawn(r, Argv(r).cmd, r.values[Len(r.children)], "pending")
           ELSE [r EXCEPT !.pc = "done"]
    ELSE r

\* the awaited promise resolved: the loop spawns the next value, or ends
EachNextOn(r) ==
  IF r.pc = "await" /\ Awaited(r).promise = "resolved"
    THEN IF Len(r.children) < Len(r.values)
           THEN Spawn(r, Argv(r).cmd, r.values[Len(r.children) + 1], "pending")
           ELSE [r EXCEPT !.pc = "done"]
    ELSE r

EachNext ==
  /\ pc = "await"
  /\ Take(EachNextOn(St), EachNextOn(twin))

\* the awaited promise rejected: catch (err) { errorHandler(err) }
EachCatchOn(r) ==
  IF r.pc = "await" /\ Awaited(r).promise = "rejected"
    THEN [errorHandler(r, Awaited(r).reason) EXCEPT !.pc = "done"]
    ELSE r

EachCatch ==
  /\ pc = "await"
  /\ Take(EachCatchOn(St), EachCatchOn(twin))

Next ==
  \/ MainConfigError
  \/ MainBulk
  \/ MainEach
  \/ \E k \in 1..Len(children) : ChildError(k)
  \/ \E k \in 1..Len(children) : ChildClose(k)
  \/ EachNext
  \/ EachCatch

Spec == Init /\ [][Next]_vars

\* Two runs that differ only in the count of -v: the run in the variables
\* has none, the twin has any.
TwinInit ==
  /\ input \in Inputs
  /\ input.verbose = 0
  /\ files \in SUBSET Paths
  /\ platform \in Platforms
  /\ level = "info"
  /\ log = <<>>
  /\ pc = "start"
  /\ values = <<>>
  /\ children = <<>>
  /\ exits = <<>>
  /\ handled = <<>>
  /\ globCalls = <<>>
  /\ buildCalls = 0
  /\ twin \in { InitRun(v) : v \in 0..MaxVerbose }

TwinSpec == TwinInit /\ [][Next]_vars

\* ================================================================ claims
EachRun == ~input.err /\ input.each

BulkRun == ~input.err /\ ~input.each

Started == pc # "start"

\* child k ran and closed
Ran(k) == children[k].state = "closed" /\ ~children[k].spawnFailed

\* child k ran and closed with a nonzero exit status
FailedWithStatus(k) == Ran(k) /\ Truthy(children[k].status)

\* the positions of the input tokens that are globs by the syntactic test
GlobPositions == { i \in 1..Len(input.args) : isGlobRelaxed(input.args[i]) }

\* the expansion of the i-th input token on its own
Expansion(i) == glob(input.args[i], [nonull |-> TRUE])

RECURSIVE LenBefore(_)
\* the summed lengths of the expansions of the tokens before the i-th
LenBefore(i) == IF i <= 1 THEN 0 ELSE LenBefore(i - 1) + Len(Expansion(i - 1))

\* C1: in each mode at most one child is active at any time, and child k+1
\* is spawned only after the completion callback of child k has fired.
C1_OneChildAtATime ==
  EachRun =>
    /\ Cardinality({ k \in 1..Len(children) : children[k].state = "running" }) <= 1
    /\ \A k \in 1..(Len(children) - 1) : children[k].cbCount >= 1

C1_Witness ==
  /\ EachRun
  /\ Len(children) = 2
  /\ children[1].cbCount = 1
  /\ children[2].state = "running"

\* C2: in each mode, once the child of match k has failed no child of a
\* later match is ever spawned; when it closed with the nonzero status s,
\* the catch is ready to run, exit is invoked with nothing but s, and it
\* has been invoked with s when mainEach is done.
C2_StopAtFirstFailure ==
  EachRun =>
    \A k \in 1..Len(children) :
      /\ (children[k].spawnFailed \/ FailedWithStatus(k)) => Len(children) = k
      /\ FailedWithStatus(k) =>
           /\ exits \in { <<>>, <<children[k].status[1]>> }
           /\ pc = "await" => ENABLED EachCatch
           /\ pc = "done" => exits = <<children[k].status[1]>>

C2_Witness ==
  /\ EachRun
  /\ Len(values) >= 2
  /\ Len(children) = 1
  /\ FailedWithStatus(1)
  /\ pc = "done"
  /\ exits = <<2>>

\* C3: in bulk mode and in each mode, when main is done and every child it
\* spawned exited with status 0, the exit callback was invoked with 0.
C3_SuccessExitsZero ==
  ( /\ ~input.err
    /\ pc = "done"
    /\ children # <<>>
    /\ \A k \in 1..Len(children) : Ran(k) /\ children[k].status = Num(0) )
  => exits = <<0>>

\* C4: in each mode with two or more glob tokens, main ends with the error
\* "each cannot accept multiple globs" and exit(1), the matching engine is
\* never invoked and no child is ever spawned.
C4_MultiGlobRejected ==
  (EachRun /\ Cardinality(GlobPositions) >= 2 /\ Started) =>
    /\ pc = "done"
    /\ globCalls = <<>>
    /\ children = <<>>
    /\ handled = <<MultiGlobError>>
    /\ exits = <<1>>

C4_Witness ==
  /\ EachRun
  /\ Cardinality(GlobPositions) >= 2
  /\ pc = "done"
  /\ exits = <<1>>

\* C5: the completion callback of every spawnCommand call fires at most
\* once, and exactly once as soon as the child has failed to start or has
\* closed, whichever events arrive.
C5_CallbackExactlyOnce ==
  \A k \in 1..Len(children) :
    /\ children[k].cbCount <= 1
    /\ children[k].state \in {"errored", "closed"} => children[k].cbCount = 1

C5_Witness ==
  \E k \in 1..Len(children) :
    /\ children[k].spawnFailed
    /\ children[k].state = "closed"
    /\ children[k].cbCount = 1

\* C6: a child that ran and closed with the nonzero status s makes main
\* invoke exit(s), through a SpawnError; a child that could not be started
\* surfaces as a generic error, never a SpawnError, and makes main invoke
\* exit(1).
C6_FailureExitCode ==
  ~input.err =>
    \A k \in 1..Len(children) :
      /\ (FailedWithStatus(k) /\ pc = "done") =>
           /\ exits = <<children[k].status[1]>>
           /\ handled = <<SpawnError(children[k].status)>>
      /\ children[k].spawnFailed =>
           /\ children[k].cbErr = SpawnFailure
           /\ children[k].cbErr.name # "SpawnError"
           /\ pc = "done" => (exits = <<1>> /\ handled = <<SpawnFailure>>)

C6_Witness ==
  /\ BulkRun
  /\ Len(children) = 1
  /\ children[1].spawnFailed
  /\ children[1].state = "closed"
  /\ exits = <<1>>

\* C7: in each mode with exactly one glob token (by the syntactic test)
\* whose expansion is m1..mN, globArgsEach returns N argument lists in
\* match order, the i-th being the input with the glob token replaced by mi.
C7_OneListPerMatch ==
  (EachRun /\ Cardinality(GlobPositions) = 1 /\ Started) =>
    LET g == CHOOSE i \in GlobPositions : TRUE
        m == Expansion(g)
    IN values = [k \in 1..Len(m) |-> [input.args EXCEPT ![g] = m[k]]]

\* C8: in each mode without a glob token the matching engine is never
\* invoked and the command is spawned exactly once, with the input tokens
\* as its arguments.
C8_NoGlobRunsOnce ==
  (EachRun /\ GlobPositions = {} /\ Started) =>
    /\ globCalls = <<>>
    /\ values = <<input.args>>
    /\ Len(children) = 1
    /\ children[1].args = input.args
    /\ SubSeq(children[1].spawnArgs,
              Len(children[1].spawnArgs) - Len(input.args) + 1,
              Len(children[1].spawnArgs)) = input.args

C8_Witness ==
  /\ EachRun
  /\ GlobPositions = {}
  /\ Len(input.args) = 2
  /\ pc = "done"
  /\ Len(children) = 1
  /\ children[1].state = "closed"

\* C9: in bulk mode the argument list is the concatenation, in token order,
\* of each token's expansion with the order inside each expansion kept; its
\* length is the sum of the lengths of the expansions.
C9_BulkConcatenation ==
  (BulkRun /\ Started) =>
    LET r == children[1].args
    IN /\ Len(r) = LenBefore(Len(input.args) + 1)
       /\ \A i \in 1..Len(input.args) :
            \A j \in 1..Len(Expansion(i)) : r[LenBefore(i) + j] = Expansion(i)[j]

C9_Witness ==
  /\ BulkRun
  /\ Started
  /\ Len(input.args) = 2
  /\ Len(Expansion(1)) = 3
  /\ Len(Expansion(2)) = 1
  /\ Len(children[1].args) = 4

\* C10: in bulk mode with a valid configuration main calls the argument
\* builder once, hands every token to the matching engine once and in
\* order, and spawns exactly one child, whose argument list holds every
\* expansion.
C10_BulkSpawnsOnce ==
  (BulkRun /\ Started) =>
    /\ buildCalls = 1
    /\ globCalls = input.args
    /\ Len(children) = 1
    /\ Len(children[1].args) = LenBefore(Len(input.args) + 1)

C10_Witness ==
  /\ BulkRun
  /\ pc = "done"
  /\ Len(input.args) = 2
  /\ Len(children) = 1
  /\ Len(children[1].args) = 3
  /\ exits = <<0>>

\* the paths that exist and match the i-th input token
Found(i) == SelectSeq(PathOrder, LAMBDA p : Matching(input.args[i], p))

\* the elements of a sequence
Range(seq) == { seq[i] : i \in 1..Len(seq) }

\* C11: expansion runs with nonull forced on whatever the user set, so a
\* token without a match stays as itself: the bulk argument list has at
\* least as many elements as there are tokens and holds every unmatched
\* token, and each mode with one glob token spawns at least one child.
C11_NoMatchReturnsSelf ==
  /\ (BulkRun /\ Started) =>
       /\ Len(children[1].args) >= Len(input.args)
       /\ \A i \in 1..Len(input.args) :
            Found(i) = <<>> => input.args[i] \in Range(children[1].args)
  /\ (EachRun /\ Started /\ Cardinality(GlobPositions) = 1) =>
       /\ values # <<>>
       /\ children # <<>>

\* C12: when parsing reports an error main invokes exit(1) and returns:
\* no argument builder runs, no pattern is expanded and no child is
\* spawned, in bulk mode and in each mode.
C12_ConfigErrorShortCircuits ==
  (input.err /\ Started) =>
    /\ pc = "done"
    /\ handled = <<YargsError>>
    /\ exits = <<1>>
    /\ buildCalls = 0
    /\ globCalls = <<>>
    /\ children = <<>>

C12_Witness ==
  /\ input.err
  /\ input.each
  /\ pc = "done"
  /\ exits = <<1>>

\* what a run does apart from logging
Control(r) == [r EXCEPT !.verbose = 0, !.level = "", !.log = <<>>]

\* C13: two runs that differ only in the count of -v, on the same files and
\* with the same child events, spawn the same commands with the same
\* arguments and invoke exit with the same code at every step; only their
\* verbosity and log differ.
C13_VerbosityKeepsControlFlow == Control(twin) = Control(St)

C13_Witness ==
  /\ input.verbose = 0
  /\ twin.verbose = 2
  /\ pc = "done"
  /\ Len(children) = 2
  /\ exits = <<1>>
  /\ twin.log # log

\* the entries errorHandler logged
HandlerLog == SelectSeq(log, LAMBDA e : e.by = "errorHandler")

\* C14: errorHandler logs nothing for a SpawnError, at any verbosity, and
\* only invokes exit; for any other error it logs the error message and
\* the help hint, and invokes exit.
C14_SpawnErrorNotDiagnosed ==
  /\ handled = <<>> => HandlerLog = <<>>
  /\ handled # <<>> =>
       IF handled[1].name = "SpawnError"
         THEN HandlerLog = <<>> /\ exits = <<handled[1].status[1]>>
       ELSE IF handled[1] = NoError
         THEN HandlerLog = <<>> /\ exits = <<0>>
       ELSE /\ Len(HandlerLog) >= 2
            /\ HandlerLog[1].level = "error"
            /\ HandlerLog[1].what = handled[1].message
            /\ HandlerLog[2].level = "info"
            /\ exits = <<1>>

C14_Witness ==
  /\ level = "silly"
  /\ Len(handled) = 1
  /\ handled[1].name = "SpawnError"
  /\ log # <<>>
  /\ HandlerLog = <<>>
  /\ exits = <<2>>

\* C15: in each mode the argument lists spawned so far are a prefix of the
\* lists globArgsEach returned, which follow the order of the matches.
C15_SpawnedInMatchOrder ==
  EachRun =>
    /\ Len(children) <= Len(values)
    /\ \A k \in 1..Len(children) : children[k].args = values[k]
    /\ \A g \in 1..Len(input.args) :
         globCalls = <<input.args[g]>> =>
           /\ Len(values) = Len(Expansion(g))
           /\ \A k \in 1..Len(values) : values[k][g] = Expansion(g)[k]

C15_Witness ==
  /\ EachRun
  /\ Len(values) = 3
  /\ Len(children) = 3
  /\ children[1].args # children[2].args
  /\ children[2].args # children[3].args

\* C16: for every count v of -v the verbosity index is min(v, 2): info for
\* 0, verbose for 1 and silly for 2 and more.
C16_VerbosityClamped ==
  Started =>
    level = CASE input.verbose = 0 -> "info"
              [] input.verbose = 1 -> "verbose"
              [] OTHER -> "silly"

C16_Witness ==
  /\ Started
  /\ input.verbose > 2
  /\ level = "silly"

\* C17: in globArgsEach, when the glob count is exactly one the position
\* located for expansion is the position of the token that was counted,
\* and the counting test and the locating test agree on every token.
C17_CountAndLocateAgree ==
  (EachRun /\ Started) =>
    /\ \A i \in 1..Len(input.args) :
         isGlobRelaxed(input.args[i]) <=> isGlobStrict(input.args[i])
    /\ Cardinality(GlobPositions) = 1 =>
         /\ globIndex(input.args) \in GlobPositions
         /\ globCalls = <<input.args[globIndex(input.args)]>>

\* C18: onClose calls cb with a SpawnError exactly when the status is a
\* nonzero number, and that is what a child that ran completes with; a
\* close with status 0 or null completes as success, and main then exits
\* with 0 in bulk mode.
C18_SpawnErrorIffNonzero ==
  \A k \in 1..Len(children) :
    children[k].state = "closed" =>
      LET c == children[k]
          nonzero == c.status # Null /\ c.status # Num(0)
      IN /\ c.closeErr.name = "SpawnError" <=> nonzero
         /\ nonzero => c.closeErr.status = c.status
         /\ ~nonzero => c.closeErr = NoError
         /\ ~c.spawnFailed => c.cbErr = c.closeErr
         /\ (BulkRun /\ ~nonzero) => exits = <<0>>

C18_Witness ==
  /\ BulkRun
  /\ children # <<>>
  /\ children[1].state = "closed"
  /\ children[1].status = Null
  /\ exits = <<0>>

\* C19: in every run of main the exit callback is invoked at most once and
\* errorHandler runs at most once, and no child is spawned once exit has
\* been invoked.
C19_ExitAtMostOnce ==
  /\ [](Len(exits) <= 1 /\ Len(handled) <= 1)
  /\ [][exits # <<>> => Len(children') = Len(children)]_vars

C19_Witness ==
  /\ exits = <<1>>
  /\ Len(children) = 1
  /\ children[1].spawnFailed
  /\ children[1].state = "closed"

====
